---------------------------- MODULE Spec2Model ----------------------------
(***************************************************************************)
(* Model of the LLDP topology pipeline of GNS-Sonic-LLDP-Discover:         *)
(*   src/model.py       normalize_edges, dedup_bidirectional_edges,        *)
(*                      detect_anomalous_ports, segmentize_edges,          *)
(*                      build_port_meta, build_model                       *)
(*   src/export_vis.py  _make_payload                                      *)
(*                                                                         *)
(* Python strings that are compared, ordered or concatenated (device and   *)
(* port names, "device:port" keys, "SEG:device:port" node names) are       *)
(* sequences of code points, so that tuple ordering and f-string           *)
(* formatting are computed and not assumed.  Attribute values and VLAN     *)
(* ids, which the code only copies and looks up, are TLA+ strings.         *)
(* A Python dict whose iteration order the code depends on is a sequence   *)
(* of <<key, value>> pairs with distinct keys (insertion order).           *)
(***************************************************************************)
EXTENDS Naturals, Sequences, FiniteSets

VARIABLES
    pc,             \* position in the run / in the function under check
    topology_data,  \* main.py:65   ordered dict hostname -> device data
    ignore_ports,   \* main.py:142  set of <<device, port>>
    model,          \* main.py:145  TopologyModel returned by build_model
    payload,        \* export_vis.py:167 dict returned by _make_payload
    raw_edges,      \* model.py:76,106 argument of the edge functions
    anomalous,      \* result of detect_anomalous_ports(raw_edges)
    p2p_once,       \* dedup_bidirectional_edges(raw_edges)
    p2p_twice,      \* dedup_bidirectional_edges(p2p_once)
    todo            \* main.py:73   device configs collect_data has yet to visit

vars == <<pc, topology_data, ignore_ports, model, payload,
          raw_edges, anomalous, p2p_once, p2p_twice, todo>>

-----------------------------------------------------------------------------
(* Bounds of the checked instances.                                        *)

\* longest raw edge list given to the edge functions
MaxEdges == 3

\* most scraped rows (lldp links, interface entries, vlan membership rows)
\* and ignored ports that one run is given in total
MaxFacts == 3

\* most scraped rows one run is given when the devices answer under any name
MaxReported == 2

\* most lldp links in a snapshot given to build_model directly
MaxLinks == 4

\* most lldp links in a snapshot whose every order is tried
MaxOrdered == 3

\* Names: "X", "X:E", "Y" and "E0", "E:E0".  "X" + ":" + "E:E0" and
\* "X:E" + ":" + "E0" are the same key "X:E:E0".
DevX == <<88>>
DevXE == <<88, 58, 69>>
DevY == <<89>>
PortE0 == <<69, 48>>
PortEE0 == <<69, 58, 69, 48>>

DeviceNames == {DevX, DevXE, DevY}
PortNames == {PortE0, PortEE0}

\* the python None
NoneVal == "<None>"

-----------------------------------------------------------------------------
(* Python primitives.                                                      *)

\* str < str : lexicographic by code point, a proper prefix is smaller
RECURSIVE StrLess(_, _)
StrLess(a, b) ==
    IF b = <<>> THEN FALSE
    ELSE IF a = <<>> THEN TRUE
    ELSE IF Head(a) # Head(b) THEN Head(a) < Head(b)
    ELSE StrLess(Tail(a), Tail(b))

\* (dev, port) < (dev, port) : tuple comparison, first differing item decides
PairLess(l, r) ==
    IF l[1] # r[1] THEN StrLess(l[1], r[1]) ELSE StrLess(l[2], r[2])

\* f"{dev}:{p}"
PortKey(dev, p) == dev \o <<58>> \o p

\* f"SEG:{a_dev}:{a_port}"
SegName(dev, p) == <<83, 69, 71, 58>> \o dev \o <<58>> \o p

\* sorted(set of str)
RECURSIVE SortedStrs(_)
SortedStrs(S) ==
    IF S = {} THEN <<>>
    ELSE LET m == CHOOSE x \in S : \A y \in S \ {x} : StrLess(x, y)
         IN  <<m>> \o SortedStrs(S \ {m})

\* sorted(set of (dev, port))
RECURSIVE SortedPairs(_)
SortedPairs(S) ==
    IF S = {} THEN <<>>
    ELSE LET m == CHOOSE x \in S : \A y \in S \ {x} : PairLess(x, y)
         IN  <<m>> \o SortedPairs(S \ {m})

\* ", ".join(list of str)
RECURSIVE Join(_)
Join(strs) ==
    IF strs = <<>> THEN <<>>
    ELSE IF Len(strs) = 1 THEN strs[1]
    ELSE strs[1] \o <<44, 32>> \o Join(Tail(strs))

\* ordered dict helpers
DictKeys(d) == {d[i][1] : i \in 1..Len(d)}
DictHas(d, k) == \E i \in 1..Len(d) : d[i][1] = k
DictGet(d, k, dflt) ==
    IF DictHas(d, k) THEN d[CHOOSE i \in 1..Len(d) : d[i][1] = k][2] ELSE dflt
DictPut(d, k, v) ==
    IF DictHas(d, k)
    THEN [i \in 1..Len(d) |-> IF d[i][1] = k THEN <<k, v>> ELSE d[i]]
    ELSE Append(d, <<k, v>>)

\* m.get(field, dflt) on an attribute dict (a function on the fields it has)
AttrGet(m, field, dflt) == IF field \in DOMAIN m THEN m[field] ELSE dflt

-----------------------------------------------------------------------------
(* model.py:76-103  dedup_bidirectional_edges                              *)

\* variant: the endpoints are never reordered
CanonicalNoSwap(e) == e

\* variant: the endpoints are ordered by their devices alone
CanonicalByDevice(e) ==
    LET left == <<e[1], e[2]>>
        right == <<e[3], e[4]>>
    IN  IF StrLess(right[1], left[1])
        THEN <<right[1], right[2], left[1], left[2]>>
        ELSE <<left[1], left[2], right[1], right[2]>>

Canonical(e) ==
    LET left == <<e[1], e[2]>>
        right == <<e[3], e[4]>>
    IN  IF PairLess(right, left)
        THEN <<right[1], right[2], left[1], left[2]>>
        ELSE <<left[1], left[2], right[1], right[2]>>

\* variant: the membership test looks the raw tuple up instead of the key
RECURSIVE DedupLoopRawSeen(_, _, _, _)
DedupLoopRawSeen(edges, i, seen, out) ==
    IF i > Len(edges) THEN out
    ELSE LET key == Canonical(edges[i])
         IN  IF edges[i] \in seen
             THEN DedupLoopRawSeen(edges, i + 1, seen, out)
             ELSE DedupLoopRawSeen(edges, i + 1, seen \cup {key},
                                   Append(out, key))

RECURSIVE DedupLoop(_, _, _, _)
DedupLoop(edges, i, seen, out) ==
    IF i > Len(edges) THEN out
    ELSE LET key == Canonical(edges[i])
         IN  IF key \in seen
             THEN DedupLoop(edges, i + 1, seen, out)
             ELSE DedupLoop(edges, i + 1, seen \cup {key}, Append(out, key))

dedup_bidirectional_edges(edges) == DedupLoop(edges, 1, {}, <<>>)

-----------------------------------------------------------------------------
(* model.py:106-128  detect_anomalous_ports                                *)

\* per_dev_port_remotes after the first loop: <<dev, port>> -> set of remote
\* devices (the nested defaultdicts, flattened)
RECURSIVE RemotesLoop(_, _, _)
RemotesLoop(edges, i, acc) ==
    IF i > Len(edges) THEN acc
    ELSE LET k == <<edges[i][1], edges[i][2]>>
             old == IF k \in DOMAIN acc THEN acc[k] ELSE {}
         IN  RemotesLoop(edges, i + 1,
                 [x \in DOMAIN acc \cup {k} |->
                     IF x = k THEN old \cup {edges[i][3]} ELSE acc[x]])

\* variant: the remote endpoint (device and port) is collected, not the device
RECURSIVE RemoteEndpointsLoop(_, _, _)
RemoteEndpointsLoop(edges, i, acc) ==
    IF i > Len(edges) THEN acc
    ELSE LET k == <<edges[i][1], edges[i][2]>>
             old == IF k \in DOMAIN acc THEN acc[k] ELSE {}
         IN  RemoteEndpointsLoop(edges, i + 1,
                 [x \in DOMAIN acc \cup {k} |->
                     IF x = k THEN old \cup {<<edges[i][3], edges[i][4]>>}
                     ELSE acc[x]])

per_dev_port_endpoints(edges) == RemoteEndpointsLoop(edges, 1, <<>>)

per_dev_port_remotes(edges) == RemotesLoop(edges, 1, <<>>)

\* variant: the first raw edge is not looked at
detect_anomalous_ports_skip_first(edges) ==
    LET rems == per_dev_port_remotes(IF edges = <<>> THEN <<>> ELSE Tail(edges))
    IN  {k \in DOMAIN rems : Cardinality(rems[k]) > 1}

detect_anomalous_ports(edges) ==
    LET rems == per_dev_port_remotes(edges)
    IN  {k \in DOMAIN rems : Cardinality(rems[k]) > 1}

-----------------------------------------------------------------------------
(* model.py:131-163  segmentize_edges                                      *)

\* variant: a segment's member set is assigned, not added to
RECURSIVE SegLoopLastMember(_, _, _, _)
SegLoopLastMember(edges, anom, i, acc) ==
    IF i > Len(edges) THEN acc
    ELSE LET e == edges[i]
             seg == SegName(e[1], e[2])
         IN  IF <<e[1], e[2]>> \in anom
             THEN SegLoopLastMember(edges, anom, i + 1,
                      [acc EXCEPT
                          !.seg_nodes = @ \cup {seg},
                          !.seg_edges = Append(@, <<e[1], e[2], seg>>),
                          !.seg_members =
                              [x \in DOMAIN acc.seg_members \cup {seg} |->
                                  IF x = seg THEN {<<e[3], e[4]>>}
                                  ELSE acc.seg_members[x]]])
             ELSE SegLoopLastMember(edges, anom, i + 1,
                      [acc EXCEPT !.p2p_raw = Append(@, e)])

\* variant: an edge is also turned into a segment edge when the port at its
\* remote end is anomalous
RECURSIVE SegLoopEitherEnd(_, _, _, _)
SegLoopEitherEnd(edges, anom, i, acc) ==
    IF i > Len(edges) THEN acc
    ELSE LET e == edges[i]
             seg == SegName(e[1], e[2])
             old == IF seg \in DOMAIN acc.seg_members
                    THEN acc.seg_members[seg] ELSE {}
         IN  IF <<e[1], e[2]>> \in anom \/ <<e[3], e[4]>> \in anom
             THEN SegLoopEitherEnd(edges, anom, i + 1,
                      [acc EXCEPT
                          !.seg_nodes = @ \cup {seg},
                          !.seg_edges = Append(@, <<e[1], e[2], seg>>),
                          !.seg_members =
                              [x \in DOMAIN acc.seg_members \cup {seg} |->
                                  IF x = seg THEN old \cup {<<e[3], e[4]>>}
                                  ELSE acc.seg_members[x]]])
             ELSE SegLoopEitherEnd(edges, anom, i + 1,
                      [acc EXCEPT !.p2p_raw = Append(@, e)])

RECURSIVE SegLoop(_, _, _, _)
SegLoop(edges, anom, i, acc) ==
    IF i > Len(edges) THEN acc
    ELSE LET e == edges[i]
             seg == SegName(e[1], e[2])
             old == IF seg \in DOMAIN acc.seg_members
                    THEN acc.seg_members[seg] ELSE {}
         IN  IF <<e[1], e[2]>> \in anom
             THEN SegLoop(edges, anom, i + 1,
                      [acc EXCEPT
                          !.seg_nodes = @ \cup {seg},
                          !.seg_edges = Append(@, <<e[1], e[2], seg>>),
                          !.seg_members =
                              [x \in DOMAIN acc.seg_members \cup {seg} |->
                                  IF x = seg THEN old \cup {<<e[3], e[4]>>}
                                  ELSE acc.seg_members[x]]])
             ELSE SegLoop(edges, anom, i + 1,
                      [acc EXCEPT !.p2p_raw = Append(@, e)])

segmentize_edges(edges, anom) ==
    SegLoop(edges, anom, 1,
        [p2p_raw |-> <<>>, seg_edges |-> <<>>,
         seg_members |-> <<>>, seg_nodes |-> {}])

-----------------------------------------------------------------------------
(* model.py:36-73  normalize_edges                                         *)
(* Device data is [interfaces, lldp, vlan_membership]; an absent or None   *)
(* field and an empty one are the same to data.get(..) or {} / [].         *)
(* An lldp link is a function on the keys it has.                          *)

\* not link.get(field): the key is absent (None) or its value is ""
Falsy(link, field) == field \notin DOMAIN link \/ link[field] = <<>>

\* variant: a malformed link ends the loop over the device's links
RECURSIVE LinkLoopBreak(_, _, _, _, _)
LinkLoopBreak(dev, lldp, j, ignore, acc) ==
    IF j > Len(lldp) THEN acc
    ELSE LET link == lldp[j]
         IN  IF Falsy(link, "local_port") \/ Falsy(link, "remote_dev")
                    \/ Falsy(link, "remote_port")
             THEN acc
             ELSE IF <<dev, link.local_port>> \in ignore
             THEN LinkLoopBreak(dev, lldp, j + 1, ignore, acc)
             ELSE LinkLoopBreak(dev, lldp, j + 1, ignore,
                      [acc EXCEPT
                          !.devices = @ \cup {link.remote_dev},
                          !.raw_edges = Append(@, <<dev, link.local_port,
                                         link.remote_dev, link.remote_port>>)])

\* variant: the remote device is added before the ignore-set is consulted
RECURSIVE LinkLoopIgnoreLate(_, _, _, _, _)
LinkLoopIgnoreLate(dev, lldp, j, ignore, acc) ==
    IF j > Len(lldp) THEN acc
    ELSE LET link == lldp[j]
         IN  IF Falsy(link, "local_port") \/ Falsy(link, "remote_dev")
                    \/ Falsy(link, "remote_port")
             THEN LinkLoopIgnoreLate(dev, lldp, j + 1, ignore, acc)
             ELSE IF <<dev, link.local_port>> \in ignore
             THEN LinkLoopIgnoreLate(dev, lldp, j + 1, ignore,
                      [acc EXCEPT !.devices = @ \cup {link.remote_dev}])
             ELSE LinkLoopIgnoreLate(dev, lldp, j + 1, ignore,
                      [acc EXCEPT
                          !.devices = @ \cup {link.remote_dev},
                          !.raw_edges = Append(@, <<dev, link.local_port,
                                         link.remote_dev, link.remote_port>>)])

\* variant: the remote device of an emitted edge is not added to the devices
RECURSIVE LinkLoopNoRemoteDev(_, _, _, _, _)
LinkLoopNoRemoteDev(dev, lldp, j, ignore, acc) ==
    IF j > Len(lldp) THEN acc
    ELSE LET link == lldp[j]
         IN  IF Falsy(link, "local_port") \/ Falsy(link, "remote_dev")
                    \/ Falsy(link, "remote_port")
             THEN LinkLoopNoRemoteDev(dev, lldp, j + 1, ignore, acc)
             ELSE IF <<dev, link.local_port>> \in ignore
             THEN LinkLoopNoRemoteDev(dev, lldp, j + 1, ignore, acc)
             ELSE LinkLoopNoRemoteDev(dev, lldp, j + 1, ignore,
                      [acc EXCEPT
                          !.raw_edges = Append(@, <<dev, link.local_port,
                                         link.remote_dev, link.remote_port>>)])

RECURSIVE LinkLoop(_, _, _, _, _)
LinkLoop(dev, lldp, j, ignore, acc) ==
    IF j > Len(lldp) THEN acc
    ELSE LET link == lldp[j]
         IN  IF Falsy(link, "local_port") \/ Falsy(link, "remote_dev")
                    \/ Falsy(link, "remote_port")
             THEN LinkLoop(dev, lldp, j + 1, ignore, acc)
             ELSE IF <<dev, link.local_port>> \in ignore
             THEN LinkLoop(dev, lldp, j + 1, ignore, acc)
             ELSE LinkLoop(dev, lldp, j + 1, ignore,
                      [acc EXCEPT
                          !.devices = @ \cup {link.remote_dev},
                          !.raw_edges = Append(@, <<dev, link.local_port,
                                         link.remote_dev, link.remote_port>>)])

RECURSIVE NormLoop(_, _, _, _)
NormLoop(data, i, ignore, acc) ==
    IF i > Len(data) THEN acc
    ELSE LET dev == data[i][1]
             d == data[i][2]
             withDev == [acc EXCEPT
                            !.interfaces = DictPut(@, dev, d.interfaces),
                            !.vlan_membership =
                                DictPut(@, dev, d.vlan_membership)]
         IN  NormLoop(data, i + 1, ignore,
                      LinkLoop(dev, d.lldp, 1, ignore, withDev))

normalize_edges(data, ignore) ==
    NormLoop(data, 1, ignore,
        [devices |-> DictKeys(data), interfaces |-> <<>>,
         raw_edges |-> <<>>, vlan_membership |-> <<>>])

-----------------------------------------------------------------------------
(* model.py:166-191  build_port_meta                                       *)

\* (interfaces.get(dev, {}) or {}).get(p, {}) or {}
IfaceOf(interfaces, dev, p) ==
    LET ifaces == DictGet(interfaces, dev, <<>>)
    IN  IF p \in DOMAIN ifaces THEN ifaces[p] ELSE <<>>

\* PortMeta(alias=m.get("alias", "???"), ...)
PortMeta(m) ==
    [alias  |-> AttrGet(m, "alias", "???"),
     status |-> AttrGet(m, "status", "?"),
     speed  |-> AttrGet(m, "speed", "N/A"),
     mtu    |-> AttrGet(m, "mtu", "N/A"),
     fec    |-> AttrGet(m, "fec", "N/A"),
     type   |-> AttrGet(m, "type", "N/A"),
     vlan   |-> AttrGet(m, "vlan", NoneVal)]

\* One turn of the outer loop: every port of dev is written under its key.
\* Two ports of one device never share a key, so the set's order is immaterial.
MetaOfDevice(interfaces, meta, dev, ports) ==
    LET new == {PortKey(dev, p) : p \in ports}
    IN  [k \in DOMAIN meta \cup new |->
            IF k \in new
            THEN PortMeta(IfaceOf(interfaces, dev,
                     CHOOSE p \in ports : PortKey(dev, p) = k))
            ELSE meta[k]]

RECURSIVE MetaLoop(_, _, _, _)
MetaLoop(interfaces, pbd, i, meta) ==
    IF i > Len(pbd) THEN meta
    ELSE MetaLoop(interfaces, pbd, i + 1,
             MetaOfDevice(interfaces, meta, pbd[i][1], pbd[i][2]))

\* variant: every port of the interface tables gets an entry as well
RECURSIVE WithIfacePorts(_, _, _)
WithIfacePorts(interfaces, i, pbd) ==
    IF i > Len(interfaces) THEN pbd
    ELSE WithIfacePorts(interfaces, i + 1,
             IF DOMAIN interfaces[i][2] = {} THEN pbd
             ELSE DictPut(pbd, interfaces[i][1],
                      DictGet(pbd, interfaces[i][1], {})
                          \cup DOMAIN interfaces[i][2]))

build_port_meta_all(interfaces, pbd) ==
    MetaLoop(interfaces, WithIfacePorts(interfaces, 1, pbd), 1, <<>>)

build_port_meta(interfaces, pbd) == MetaLoop(interfaces, pbd, 1, <<>>)

-----------------------------------------------------------------------------
(* model.py:194-232  build_model                                           *)

\* ports_by_device[dev].add(p) on a defaultdict(set)
AddPort(pbd, dev, p) == DictPut(pbd, dev, DictGet(pbd, dev, {}) \cup {p})

RECURSIVE P2PPortsLoop(_, _, _)
P2PPortsLoop(edges, i, pbd) ==
    IF i > Len(edges) THEN pbd
    ELSE P2PPortsLoop(edges, i + 1,
             AddPort(AddPort(pbd, edges[i][1], edges[i][2]),
                     edges[i][3], edges[i][4]))

RECURSIVE SegPortsLoop(_, _, _)
SegPortsLoop(edges, i, pbd) ==
    IF i > Len(edges) THEN pbd
    ELSE SegPortsLoop(edges, i + 1, AddPort(pbd, edges[i][1], edges[i][2]))

\* variant: the ports of the segment edges are left out
LinkedPortsNoSeg(p2p_edges, seg_edges) == P2PPortsLoop(p2p_edges, 1, <<>>)

\* model.py:212-218
LinkedPorts(p2p_edges, seg_edges) ==
    SegPortsLoop(seg_edges, 1, P2PPortsLoop(p2p_edges, 1, <<>>))

build_model(data, ignore) ==
    LET norm == normalize_edges(data, ignore)
        anom == detect_anomalous_ports(norm.raw_edges)
        seg == segmentize_edges(norm.raw_edges, anom)
        p2p_edges == dedup_bidirectional_edges(seg.p2p_raw)
        ports_by_device == LinkedPorts(p2p_edges, seg.seg_edges)
    IN  [devices |-> norm.devices,
         interfaces |-> norm.interfaces,
         port_meta |-> build_port_meta(norm.interfaces, ports_by_device),
         p2p_edges |-> p2p_edges,
         seg_nodes |-> seg.seg_nodes,
         seg_edges |-> seg.seg_edges,
         seg_members |-> seg.seg_members,
         anomalous_ports |-> anom,
         vlan_membership |-> norm.vlan_membership]

-----------------------------------------------------------------------------
(* export_vis.py:23-134  _make_payload (the port projection)               *)

\* export_vis.py:36-40: every port of the interface tables, device by device
RECURSIVE IfacePortsLoop(_, _, _)
IfacePortsLoop(interfaces, i, pbd) ==
    IF i > Len(interfaces) THEN pbd
    ELSE IfacePortsLoop(interfaces, i + 1,
             IF DOMAIN interfaces[i][2] = {} THEN pbd
             ELSE DictPut(pbd, interfaces[i][1],
                      DictGet(pbd, interfaces[i][1], {})
                          \cup DOMAIN interfaces[i][2]))

\* export_vis.py:36-46
PayloadPorts(m) ==
    SegPortsLoop(m.seg_edges, 1,
        P2PPortsLoop(m.p2p_edges, 1, IfacePortsLoop(m.interfaces, 1, <<>>)))

\* export_vis.py:72-77: the assignments port_to_vlan[key] = vlan_id, in order
RECURSIVE VlanPortsLoop(_, _, _, _, _)
VlanPortsLoop(dev, vid, ports, k, acc) ==
    IF k > Len(ports) THEN acc
    ELSE VlanPortsLoop(dev, vid, ports, k + 1,
             Append(acc, <<PortKey(dev, ports[k]), vid>>))

RECURSIVE VlanItemsLoop(_, _, _, _)
VlanItemsLoop(dev, table, j, acc) ==
    IF j > Len(table) THEN acc
    ELSE VlanItemsLoop(dev, table, j + 1,
             VlanPortsLoop(dev, table[j][1], table[j][2], 1, acc))

RECURSIVE VlanDevLoop(_, _, _, _)
VlanDevLoop(pbd, vlan_membership, i, acc) ==
    IF i > Len(pbd) THEN acc
    ELSE VlanDevLoop(pbd, vlan_membership, i + 1,
             IF DictHas(vlan_membership, pbd[i][1])
             THEN VlanItemsLoop(pbd[i][1],
                      DictGet(vlan_membership, pbd[i][1], <<>>), 1, acc)
             ELSE acc)

\* port_to_vlan: key -> vlan id, a later assignment overwriting an earlier one
port_to_vlan(pbd, vlan_membership) ==
    LET asg == VlanDevLoop(pbd, vlan_membership, 1, <<>>)
        keys == {asg[i][1] : i \in 1..Len(asg)}
        last(k) == CHOOSE i \in 1..Len(asg) :
                       /\ asg[i][1] = k
                       /\ \A j \in 1..Len(asg) : asg[j][1] = k => j <= i
    IN  [k \in keys |-> asg[last(k)][2]]

\* variant: the vlan of the model's PortMeta is passed on as it is
PayloadEntryNoOverlay(m, ptv, dev, port) ==
    LET key == PortKey(dev, port)
    IN  IF key \in DOMAIN m.port_meta
        THEN m.port_meta[key]
        ELSE PortMeta(IfaceOf(m.interfaces, dev, port))

\* export_vis.py:82-109 for one (dev, port)
PayloadEntry(m, ptv, dev, port) ==
    LET key == PortKey(dev, port)
        vlan_id == IF key \in DOMAIN ptv THEN ptv[key] ELSE NoneVal
    IN  IF key \in DOMAIN m.port_meta
        THEN [m.port_meta[key] EXCEPT !.vlan = vlan_id]
        ELSE [PortMeta(IfaceOf(m.interfaces, dev, port)) EXCEPT
                 !.vlan = vlan_id]

PayloadMetaOfDevice(m, ptv, meta, dev, ports) ==
    LET new == {PortKey(dev, p) : p \in ports}
    IN  [k \in DOMAIN meta \cup new |->
            IF k \in new
            THEN PayloadEntry(m, ptv, dev,
                     CHOOSE p \in ports : PortKey(dev, p) = k)
            ELSE meta[k]]

RECURSIVE PayloadMetaLoop(_, _, _, _, _)
PayloadMetaLoop(m, ptv, pbd, i, meta) ==
    IF i > Len(pbd) THEN meta
    ELSE PayloadMetaLoop(m, ptv, pbd, i + 1,
             PayloadMetaOfDevice(m, ptv, meta, pbd[i][1], pbd[i][2]))

\* " sees multiple neighbors: "
NotePhrase ==
    <<32, 115, 101, 101, 115, 32, 109, 117, 108, 116, 105, 112, 108,
      101, 32, 110, 101, 105, 103, 104, 98, 111, 114, 115, 58, 32>>

\* export_vis.py:66-68: the note of one anomalous port
AnomalyNote(m, dev, lp) ==
    LET seg == SegName(dev, lp)
        members == IF seg \in DOMAIN m.seg_members
                   THEN m.seg_members[seg] ELSE {}
        nbrs == SortedStrs({member[1] : member \in members})
    IN  PortKey(dev, lp) \o NotePhrase \o Join(nbrs)

\* export_vis.py:64-68
anomaly_notes(m) ==
    LET ports == SortedPairs(m.anomalous_ports)
    IN  [i \in 1..Len(ports) |-> AnomalyNote(m, ports[i][1], ports[i][2])]

_make_payload(m) ==
    LET pbd == PayloadPorts(m)
        ptv == port_to_vlan(pbd, m.vlan_membership)
    IN  [ports_by_device |-> pbd,
         port_meta |-> PayloadMetaLoop(m, ptv, pbd, 1, <<>>),
         seg_nodes |-> SortedStrs(m.seg_nodes),
         anomaly_notes |-> anomaly_notes(m)]

-----------------------------------------------------------------------------
(* Inputs.                                                                 *)

\* config.py:53-81: the configured hosts, in order
DevConfigs == <<DevX, DevY>>

\* router_sonic.py:211-215: the links a device can report; the malformed
\* ones lack a key or hold an empty string
GoodLinks ==
    [local_port : PortNames, remote_dev : DeviceNames, remote_port : PortNames]
BaseLink ==
    [local_port |-> PortE0, remote_dev |-> DevXE, remote_port |-> PortE0]
LinkKeys == {"local_port", "remote_dev", "remote_port"}
BadLinks ==
    {[k \in LinkKeys \ {f} |-> BaseLink[k]] : f \in LinkKeys}
        \cup {[BaseLink EXCEPT ![f] = <<>>] : f \in LinkKeys}
Links == GoodLinks \cup BadLinks

\* router_sonic.py:182-191: an interface entry, with and without a vlan;
\* the empty dict is an entry ingestion knew nothing about
AttrsNoVlan ==
    [alias |-> "eth", status |-> "up", speed |-> "100G", mtu |-> "9100",
     fec |-> "rs", type |-> "QSFP", vlan |-> NoneVal]
AttrsVlan == [AttrsNoVlan EXCEPT !.vlan = "trunk"]
IfaceAttrs == {AttrsNoVlan, AttrsVlan, <<>>}

VlanIds == {"10", "20"}

\* router_sonic.py:246-267: vlan_membership[vlan_id].append(member), row by row
RECURSIVE VlanTable(_, _, _)
VlanTable(rows, i, table) ==
    IF i > Len(rows) THEN table
    ELSE VlanTable(rows, i + 1,
             DictPut(table, rows[i][1],
                 Append(DictGet(table, rows[i][1], <<>>), rows[i][2])))

RECURSIVE SumLen(_, _)
SumLen(table, i) ==
    IF i > Len(table) THEN 0 ELSE Len(table[i][2]) + SumLen(table, i + 1)

\* the number of scraped rows one device's data holds
DataSize(d) ==
    Len(d.lldp) + Cardinality(DOMAIN d.interfaces)
        + SumLen(d.vlan_membership, 1)

RECURSIVE SnapshotSize(_, _)
SnapshotSize(data, i) ==
    IF i > Len(data) THEN 0
    ELSE DataSize(data[i][2]) + SnapshotSize(data, i + 1)

-----------------------------------------------------------------------------
(* The run: main.py:192-200 main, 68-75 collect_data, 131-149 visualize.   *)

Blank == <<>>

Init ==
    /\ pc = "collect"
    /\ todo = DevConfigs
    /\ topology_data = <<>>
    /\ ignore_ports = {}
    /\ model = Blank
    /\ payload = Blank
    /\ raw_edges = <<>>
    /\ anomalous = {}
    /\ p2p_once = <<>>
    /\ p2p_twice = <<>>

\* main.py:95-97: the connection fails, the device is skipped
ConnectFailed ==
    /\ pc = "collect"
    /\ todo # <<>>
    /\ todo' = Tail(todo)
    /\ UNCHANGED <<pc, topology_data, ignore_ports, model, payload,
                   raw_edges, anomalous, p2p_once, p2p_twice>>

\* main.py:78-128 _collect_from_device: the device answers under the
\* configured host name; a table that could not be read is empty
CollectFromDevice ==
    /\ pc = "collect"
    /\ todo # <<>>
    /\ LET hostname == Head(todo)
           room == MaxFacts - SnapshotSize(topology_data, 1)
       IN  \E nl \in 0..room : \E lldp \in [1..nl -> Links] :
           \E ps \in SUBSET PortNames :
             /\ Cardinality(ps) <= room - nl
             /\ \E ifaces \in [ps -> IfaceAttrs] :
                \E nv \in 0..(room - nl - Cardinality(ps)) :
                \E rows \in [1..nv -> VlanIds \X PortNames] :
                  topology_data' = DictPut(topology_data, hostname,
                      [interfaces |-> ifaces, lldp |-> lldp,
                       vlan_membership |-> VlanTable(rows, 1, <<>>)])
    /\ todo' = Tail(todo)
    /\ UNCHANGED <<pc, ignore_ports, model, payload,
                   raw_edges, anomalous, p2p_once, p2p_twice>>

\* main.py:142-145: visualize builds the model
BuildModel ==
    /\ pc = "collect"
    /\ todo = <<>>
    /\ \E ign \in SUBSET (DeviceNames \X PortNames) :
         /\ Cardinality(ign) <= MaxFacts - SnapshotSize(topology_data, 1)
         /\ ignore_ports' = ign
         /\ model' = build_model(topology_data, ign)
    /\ pc' = "built"
    /\ UNCHANGED <<topology_data, payload, todo,
                   raw_edges, anomalous, p2p_once, p2p_twice>>

\* main.py:147, export_vis.py:167: export_vis_html projects the payload
ExportVis ==
    /\ pc = "built"
    /\ payload' = _make_payload(model)
    /\ pc' = "exported"
    /\ UNCHANGED <<topology_data, ignore_ports, model, todo,
                   raw_edges, anomalous, p2p_once, p2p_twice>>

Next == ConnectFailed \/ CollectFromDevice \/ BuildModel \/ ExportVis

Spec == Init /\ [][Next]_vars

-----------------------------------------------------------------------------
(* The run of main.py from the device list on, the devices answering under *)
(* any host name.                                                          *)

\* config.py:53-81 _get_default_devices: the device lists a configuration
\* can hold, as the hosts of its entries
HostLists == UNION {[1..n -> {DevX, DevY}] : n \in 0..2}

InitCollect ==
    /\ pc = "config"
    /\ todo \in HostLists
    /\ topology_data = <<>>
    /\ ignore_ports = {}
    /\ model = Blank
    /\ payload = Blank
    /\ raw_edges = <<>>
    /\ anomalous = {}
    /\ p2p_once = <<>>
    /\ p2p_twice = <<>>

\* config.py:32-50 get_default_devices: a host listed twice raises ValueError
GetDefaultDevices ==
    /\ pc = "config"
    /\ LET hosts == todo
           duplicates == {hosts[i] : i \in {j \in 1..Len(hosts) :
                             Cardinality({k \in 1..Len(hosts) :
                                 hosts[k] = hosts[j]}) > 1}}
       IN  pc' = IF duplicates # {} THEN "rejected" ELSE "collect"
    /\ UNCHANGED <<topology_data, ignore_ports, model, payload, todo,
                   raw_edges, anomalous, p2p_once, p2p_twice>>

\* main.py:78-128 _collect_from_device: the data is stored under the name
\* get_hostname returns, or under the configured host when it fails
CollectReported ==
    /\ pc = "collect"
    /\ todo # <<>>
    /\ LET room == MaxReported - SnapshotSize(topology_data, 1)
       IN  \E device_hostname \in DeviceNames \cup {Head(todo)} :
           \E nl \in 0..room : \E lldp \in [1..nl -> Links] :
           \E ps \in SUBSET PortNames :
             /\ Cardinality(ps) <= room - nl
             /\ \E ifaces \in [ps -> IfaceAttrs] :
                \E nv \in 0..(room - nl - Cardinality(ps)) :
                \E rows \in [1..nv -> VlanIds \X PortNames] :
                  topology_data' = DictPut(topology_data, device_hostname,
                      [interfaces |-> ifaces, lldp |-> lldp,
                       vlan_membership |-> VlanTable(rows, 1, <<>>)])
    /\ todo' = Tail(todo)
    /\ UNCHANGED <<pc, ignore_ports, model, payload,
                   raw_edges, anomalous, p2p_once, p2p_twice>>

\* main.py:200, 142-145: main calls visualize() without ignore_ports
Visualize ==
    /\ pc = "collect"
    /\ todo = <<>>
    /\ ignore_ports' = {}
    /\ model' = build_model(topology_data, {})
    /\ pc' = "built"
    /\ UNCHANGED <<topology_data, payload, todo,
                   raw_edges, anomalous, p2p_once, p2p_twice>>

NextCollect ==
    GetDefaultDevices \/ ConnectFailed \/ CollectReported \/ Visualize
        \/ ExportVis

SpecCollect == InitCollect /\ [][NextCollect]_vars

-----------------------------------------------------------------------------
(* The edge functions of model.py on every raw edge list of the bound.     *)

\* the ports the observed links run between; (X, E:E0) and (X:E, E0)
\* format to the same key
Endpoints ==
    {<<DevX, PortE0>>, <<DevX, PortEE0>>, <<DevXE, PortE0>>, <<DevY, PortE0>>}
Edges == {<<a[1], a[2], b[1], b[2]>> : a \in Endpoints, b \in Endpoints}
EdgeLists == UNION {[1..n -> Edges] : n \in 0..MaxEdges}

InitEdges ==
    /\ pc = "edges"
    /\ raw_edges \in EdgeLists
    /\ anomalous = {}
    /\ p2p_once = <<>>
    /\ p2p_twice = <<>>
    /\ todo = <<>>
    /\ topology_data = <<>>
    /\ ignore_ports = {}
    /\ model = Blank
    /\ payload = Blank

\* model.py:208
DetectAnomalous ==
    /\ pc = "edges"
    /\ anomalous' = detect_anomalous_ports(raw_edges)
    /\ pc' = "detected"
    /\ UNCHANGED <<topology_data, ignore_ports, model, payload, todo,
                   raw_edges, p2p_once, p2p_twice>>

\* model.py:210
Canonicalize ==
    /\ pc = "edges"
    /\ p2p_once' = dedup_bidirectional_edges(raw_edges)
    /\ pc' = "canonical"
    /\ UNCHANGED <<topology_data, ignore_ports, model, payload, todo,
                   raw_edges, anomalous, p2p_twice>>

\* the canonicalizer run on its own output
Recanonicalize ==
    /\ pc = "canonical"
    /\ p2p_twice' = dedup_bidirectional_edges(p2p_once)
    /\ pc' = "recanonical"
    /\ UNCHANGED <<topology_data, ignore_ports, model, payload, todo,
                   raw_edges, anomalous, p2p_once>>

NextEdges == DetectAnomalous \/ Canonicalize \/ Recanonicalize

SpecEdges == InitEdges /\ [][NextEdges]_vars

-----------------------------------------------------------------------------
(* build_model and _make_payload on every snapshot of lldp links between   *)
(* the ports of Endpoints, reported by the devices X, X:E and Y.           *)

\* the links device dev can report between ports of Endpoints
LinksOf(dev) ==
    {l \in GoodLinks : /\ <<dev, l.local_port>> \in Endpoints
                       /\ <<l.remote_dev, l.remote_port>> \in Endpoints}

\* main.py:122-126: the data of a device that reported lldp links only
LinkData(lldp) ==
    [interfaces |-> <<>>, lldp |-> lldp, vlan_membership |-> <<>>]

\* the snapshots in which X, X:E and Y report at most n links together
Snapshots(n) ==
    {<<<<DevX, LinkData(l1)>>, <<DevXE, LinkData(l2)>>,
       <<DevY, LinkData(l3)>>>> :
        <<l1, l2, l3>> \in UNION {
            [1..n1 -> LinksOf(DevX)] \X [1..n2 -> LinksOf(DevXE)]
                \X [1..n3 -> LinksOf(DevY)] :
            <<n1, n2, n3>> \in {t \in (0..n) \X (0..n) \X (0..n) :
                                   t[1] + t[2] + t[3] <= n}}}

InitCore ==
    /\ pc = "snapshot"
    /\ topology_data \in Snapshots(MaxLinks)
    /\ ignore_ports = {}
    /\ model = Blank
    /\ payload = Blank
    /\ todo = <<>>
    /\ raw_edges = <<>>
    /\ anomalous = {}
    /\ p2p_once = <<>>
    /\ p2p_twice = <<>>

\* main.py:145
BuildCore ==
    /\ pc = "snapshot"
    /\ model' = build_model(topology_data, ignore_ports)
    /\ pc' = "built"
    /\ UNCHANGED <<topology_data, ignore_ports, payload, todo,
                   raw_edges, anomalous, p2p_once, p2p_twice>>

NextCore == BuildCore \/ ExportVis

SpecCore == InitCore /\ [][NextCore]_vars

\* the same on the snapshots of at most MaxOrdered links
InitOrder ==
    /\ pc = "snapshot"
    /\ topology_data \in Snapshots(MaxOrdered)
    /\ ignore_ports = {}
    /\ model = Blank
    /\ payload = Blank
    /\ todo = <<>>
    /\ raw_edges = <<>>
    /\ anomalous = {}
    /\ p2p_once = <<>>
    /\ p2p_twice = <<>>

SpecOrder == InitOrder /\ [][NextCore]_vars

-----------------------------------------------------------------------------
(* Claims about the edge functions (SpecEdges).                            *)

InList(e, list) == \E i \in 1..Len(list) : list[i] = e

\* the indices of the edges of list that join endpoints a and b
Joining(list, a, b) ==
    {i \in 1..Len(list) :
        {<<list[i][1], list[i][2]>>, <<list[i][3], list[i][4]>>} = {a, b}}

\* C1: when the list given to dedup_bidirectional_edges holds both
\* (A,pA,B,pB) and (B,pB,A,pA), its output holds exactly one edge between
\* the endpoints (A,pA) and (B,pB).
C1_OneEdgePerReportedPair ==
    pc = "canonical" =>
        \A e \in Edges :
            (InList(e, raw_edges) /\ InList(<<e[3], e[4], e[1], e[2]>>, raw_edges))
                => Cardinality(Joining(p2p_once, <<e[1], e[2]>>, <<e[3], e[4]>>)) = 1

\* both directions of a link between two different endpoints were given,
\* with a third edge between them in the list
C1_Witness ==
    /\ pc = "canonical"
    /\ Len(raw_edges) = 3
    /\ raw_edges[1] = <<DevY, PortE0, DevX, PortEE0>>
    /\ raw_edges[3] = <<DevX, PortEE0, DevY, PortE0>>
    /\ Len(p2p_once) = 2

\* the distinct remote devices the raw edges report on local port (d, p)
RemoteDevicesOn(list, d, p) ==
    {list[i][3] : i \in {j \in 1..Len(list) : list[j][1] = d /\ list[j][2] = p}}

\* C2: (device, port) is in the set detect_anomalous_ports returns if and
\* only if the raw edges whose local endpoint it is name more than one
\* distinct remote device.
C2_AnomalousIffSeveralRemoteDevices ==
    pc = "detected" =>
        \A d \in DeviceNames, p \in PortNames :
            <<d, p>> \in anomalous
                <=> Cardinality(RemoteDevicesOn(raw_edges, d, p)) > 1

\* one port hears two devices, one of them on two of its ports, and is
\* flagged
C2_Witness ==
    /\ pc = "detected"
    /\ Len(raw_edges) = 3
    /\ \E i, j \in 1..Len(raw_edges) :
         /\ raw_edges[i][3] = raw_edges[j][3]
         /\ raw_edges[i][4] # raw_edges[j][4]
    /\ \A i \in 1..Len(raw_edges) :
         <<raw_edges[i][1], raw_edges[i][2]>> \in anomalous

\* C3: dedup_bidirectional_edges is idempotent: run on its own output it
\* returns the same edges in the same order.
C3_DedupIdempotent ==
    pc = "recanonical" => p2p_twice = p2p_once

\* the first run reordered an edge and dropped a reverse duplicate
C3_Witness ==
    /\ pc = "recanonical"
    /\ Len(p2p_once) = 2
    /\ Len(raw_edges) = 3
    /\ \E i \in 1..Len(raw_edges) : ~InList(raw_edges[i], p2p_once)

\* (d, p) <= (d', p') : by device, then by port
LexLeq(a, b) ==
    \/ StrLess(a[1], b[1])
    \/ a[1] = b[1] /\ (a[2] = b[2] \/ StrLess(a[2], b[2]))

\* the two endpoints an edge joins
Ends(e) == {<<e[1], e[2]>>, <<e[3], e[4]>>}

\* the indices at which list names an undirected link for the first time
FirstOccurrences(list) ==
    {i \in 1..Len(list) : \A j \in 1..(i - 1) : Ends(list[j]) # Ends(list[i])}

\* C16: every edge dedup_bidirectional_edges returns has its endpoints in
\* order, (dA, pA) <= (dB, pB) by device and then port; no two returned
\* edges are equal; the output is not longer than the input; and the output
\* is, in order, one edge for each undirected link of the input, at the
\* place of the link's first occurrence.
C16_DedupOutputCanonical ==
    pc = "canonical" =>
        /\ \A i \in 1..Len(p2p_once) :
               LexLeq(<<p2p_once[i][1], p2p_once[i][2]>>,
                      <<p2p_once[i][3], p2p_once[i][4]>>)
        /\ \A i, j \in 1..Len(p2p_once) :
               p2p_once[i] = p2p_once[j] => i = j
        /\ Len(p2p_once) <= Len(raw_edges)
        /\ Len(p2p_once) = Cardinality(FirstOccurrences(raw_edges))
        /\ \A i \in FirstOccurrences(raw_edges) :
               LET k == Cardinality({j \in FirstOccurrences(raw_edges) : j <= i})
               IN  /\ Ends(p2p_once[k]) = Ends(raw_edges[i])
                   /\ \A j \in 1..Len(p2p_once) :
                          Ends(p2p_once[j]) = Ends(raw_edges[i]) => j = k

\* a link between two ports of one device given with the larger port first,
\* another link, and the first link again the other way round
C16_Witness ==
    /\ pc = "canonical"
    /\ Len(raw_edges) = 3
    /\ raw_edges[1] = <<DevX, PortEE0, DevX, PortE0>>
    /\ raw_edges[2] = <<DevY, PortE0, DevX, PortE0>>
    /\ raw_edges[3] = <<DevX, PortE0, DevX, PortEE0>>
    /\ p2p_once = <<<<DevX, PortE0, DevX, PortEE0>>,
                    <<DevX, PortE0, DevY, PortE0>>>>

-----------------------------------------------------------------------------
(* Claims about the built model and the payload (Spec).                    *)

Built == pc \in {"built", "exported"}

\* the (device, port) pairs that are an endpoint of an edge of model m
Referenced(m) ==
    {<<m.p2p_edges[i][1], m.p2p_edges[i][2]>> : i \in 1..Len(m.p2p_edges)}
        \cup {<<m.p2p_edges[i][3], m.p2p_edges[i][4]>> : i \in 1..Len(m.p2p_edges)}
        \cup {<<m.seg_edges[i][1], m.seg_edges[i][2]>> : i \in 1..Len(m.seg_edges)}

\* the interface entry the snapshot holds for (dev, port); empty when none
SnapshotIface(dev, port) ==
    IF DictHas(topology_data, dev)
           /\ port \in DOMAIN DictGet(topology_data, dev, <<>>).interfaces
    THEN DictGet(topology_data, dev, <<>>).interfaces[port]
    ELSE <<>>

\* model.py:9: the defaults of PortMeta
DefaultMeta ==
    [alias |-> "???", status |-> "?", speed |-> "N/A", mtu |-> "N/A",
     fec |-> "N/A", type |-> "N/A", vlan |-> NoneVal]

WellFormed(link) ==
    \A f \in LinkKeys : f \in DOMAIN link /\ link[f] # <<>>

\* the raw edges device dev contributes: its well-formed links on ports
\* that are not ignored, in order
RECURSIVE EdgesOf(_, _, _)
EdgesOf(dev, lldp, ignore) ==
    IF lldp = <<>> THEN <<>>
    ELSE LET link == Head(lldp)
             rest == EdgesOf(dev, Tail(lldp), ignore)
         IN  IF WellFormed(link) /\ <<dev, link.local_port>> \notin ignore
             THEN <<<<dev, link.local_port, link.remote_dev,
                      link.remote_port>>>> \o rest
             ELSE rest

RECURSIVE ExpectedEdges(_, _)
ExpectedEdges(data, ignore) ==
    IF data = <<>> THEN <<>>
    ELSE EdgesOf(Head(data)[1], Head(data)[2].lldp, ignore)
             \o ExpectedEdges(Tail(data), ignore)

\* C5: normalize_edges drops every link in which local_port, remote_dev or
\* remote_port is missing, and nothing else but the links on ignored ports:
\* the raw edges are the well-formed links in order, and the device set
\* gains the remote devices of the emitted edges only.
C5_MalformedLinksDropped ==
    pc = "built" =>
        LET norm == normalize_edges(topology_data, ignore_ports)
            want == ExpectedEdges(topology_data, ignore_ports)
        IN  /\ norm.raw_edges = want
            /\ norm.devices = DictKeys(topology_data)
                                  \cup {want[i][3] : i \in 1..Len(want)}
            /\ model.devices = norm.devices

\* a device reported a malformed link naming an otherwise unknown device,
\* then a well-formed one, and the model was built
C5_Witness ==
    /\ pc = "built"
    /\ ignore_ports = {}
    /\ \E i \in 1..Len(topology_data) :
         LET lldp == topology_data[i][2].lldp
         IN  /\ Len(lldp) = 2
             /\ ~WellFormed(lldp[1])
             /\ "remote_dev" \in DOMAIN lldp[1]
             /\ lldp[1].remote_dev \notin model.devices \cup {<<>>}
             /\ WellFormed(lldp[2])
    /\ Len(model.p2p_edges) = 1

\* the snapshot without the links observed on ignored ports
RECURSIVE Stripped(_, _)
Stripped(data, ignore) ==
    IF data = <<>> THEN <<>>
    ELSE LET dev == Head(data)[1]
             d == Head(data)[2]
             kept == SelectSeq(d.lldp,
                         LAMBDA l : ~("local_port" \in DOMAIN l
                                      /\ <<dev, l.local_port>> \in ignore))
         IN  <<<<dev, [d EXCEPT !.lldp = kept]>>>>
                 \o Stripped(Tail(data), ignore)

\* C6: with (X, p) in the ignore-set, what X observes on p is excluded
\* whatever the other devices report: normalize_edges emits no raw edge with
\* local endpoint (X, p), and the built model is the model of the snapshot
\* in which X never reported those links.
C6_IgnoredObservationExcluded ==
    pc = "built" =>
        LET norm == normalize_edges(topology_data, ignore_ports)
        IN  /\ \A i \in 1..Len(norm.raw_edges) :
                   <<norm.raw_edges[i][1], norm.raw_edges[i][2]>>
                       \notin ignore_ports
            /\ model = build_model(Stripped(topology_data, ignore_ports), {})

\* X's link to an otherwise unknown device on an ignored port, while Y
\* reports a link to that very port of X
C6_Witness ==
    /\ pc = "built"
    /\ ignore_ports = {<<DevX, PortE0>>}
    /\ Len(topology_data) = 2
    /\ topology_data[1][1] = DevX
    /\ topology_data[1][2].lldp = <<[local_port |-> PortE0,
           remote_dev |-> DevXE, remote_port |-> PortE0]>>
    /\ topology_data[2][2].lldp = <<[local_port |-> PortE0,
           remote_dev |-> DevX, remote_port |-> PortE0]>>
    /\ model.devices = {DevX, DevY}
    /\ model.p2p_edges = <<<<DevX, PortE0, DevY, PortE0>>>>

\* the vlan ids under which the snapshot's membership table of dev lists port
ListedVlans(dev, port) ==
    LET table == IF DictHas(topology_data, dev)
                 THEN DictGet(topology_data, dev, <<>>).vlan_membership
                 ELSE <<>>
    IN  {table[i][1] : i \in {j \in 1..Len(table) :
            \E k \in 1..Len(table[j][2]) : table[j][2][k] = port}}

\* the vlan the interface table holds for (dev, port), None when none
IfaceVlan(dev, port) == AttrGet(SnapshotIface(dev, port), "vlan", NoneVal)

\* the vlan ids the membership tables list for ports formatting to key
KeyVlans(key) ==
    UNION {ListedVlans(dev, port) :
              <<dev, port>> \in {dp \in DictKeys(topology_data) \X PortNames :
                                    PortKey(dp[1], dp[2]) = key}}

\* the claim's ports: an endpoint of an edge (so it has a PortMeta entry)
\* that a membership table lists and whose interface data has no vlan
VlanListedPorts ==
    {dp \in DictKeys(topology_data) \X PortNames :
        /\ dp \in Referenced(model)
        /\ ListedVlans(dp[1], dp[2]) # {}
        /\ IfaceVlan(dp[1], dp[2]) = NoneVal}

UnlinkedIfacePorts ==
    {dp \in DictKeys(topology_data) \X PortNames :
        /\ dp[2] \in DOMAIN DictGet(topology_data, dp[1], <<>>).interfaces
        /\ dp \notin Referenced(model)}

\* C9 (as claimed): a port of the interface data that is an endpoint of no
\* edge has no entry in the model's port_meta nor in the payload's.
C9_UnlinkedPortsPruned ==
    pc = "exported" =>
        \A dp \in UnlinkedIfacePorts :
            /\ PortKey(dp[1], dp[2]) \notin DOMAIN model.port_meta
            /\ PortKey(dp[1], dp[2]) \notin DOMAIN payload.port_meta

\* C9 (amended): such a port has no entry in the model's port_meta unless
\* its key is also the key of a port that is an endpoint of an edge, and it
\* does have an entry in the payload's port_meta.
C9_UnlinkedPortsPrunedInModelOnly ==
    pc = "exported" =>
        \A dp \in UnlinkedIfacePorts :
            /\ PortKey(dp[1], dp[2]) \in DOMAIN model.port_meta
                   => \E r \in Referenced(model) :
                          PortKey(r[1], r[2]) = PortKey(dp[1], dp[2])
            /\ PortKey(dp[1], dp[2]) \in DOMAIN payload.port_meta

\* one device has a linked port and an interface entry for another port,
\* which the model leaves out and the payload carries
C9_Witness ==
    /\ pc = "exported"
    /\ DOMAIN model.port_meta # {}
    /\ \E dp \in UnlinkedIfacePorts :
           /\ <<dp[1], PortE0>> \in Referenced(model)
           /\ PortKey(dp[1], dp[2]) \notin DOMAIN model.port_meta
           /\ PortKey(dp[1], dp[2]) \in DOMAIN payload.port_meta

\* the value the one rule gives: a vlan id of the membership table when it
\* lists the port, the interface vlan otherwise
ResolvedBy(val, dev, port) ==
    IF ListedVlans(dev, port) # {}
    THEN val \in ListedVlans(dev, port)
    ELSE val = IfaceVlan(dev, port)

\* C10 (as claimed): the model's PortMeta and the payload's port_meta give
\* a port the same vlan, the one the rule gives.
C10_OneVlanRuleAtBothSites ==
    pc = "exported" =>
        \A dev \in DictKeys(topology_data), port \in PortNames :
            PortKey(dev, port) \in DOMAIN model.port_meta
                => /\ model.port_meta[PortKey(dev, port)].vlan
                          = payload.port_meta[PortKey(dev, port)].vlan
                   /\ ResolvedBy(model.port_meta[PortKey(dev, port)].vlan,
                                 dev, port)

\* C11: the remote device of every raw edge normalize_edges emits is in the
\* device set it returns, also when that device is no key of the snapshot,
\* and the device set is the snapshot's keys united with the remote devices
\* of the emitted raw edges.
C11_RemoteDevicesAreDevices ==
    pc = "built" =>
        LET norm == normalize_edges(topology_data, ignore_ports)
            remotes == {norm.raw_edges[i][3] : i \in 1..Len(norm.raw_edges)}
        IN  /\ remotes \subseteq norm.devices
            /\ norm.devices = DictKeys(topology_data) \cup remotes
            /\ model.devices = norm.devices

\* one device was queried and its only emitted edge names a device that was
\* never queried, while a link on an ignored port names yet another one
C11_Witness ==
    /\ pc = "built"
    /\ DictKeys(topology_data) = {DevY}
    /\ ignore_ports = {<<DevY, PortEE0>>}
    /\ LET norm == normalize_edges(topology_data, ignore_ports)
       IN  /\ norm.raw_edges = <<<<DevY, PortE0, DevXE, PortE0>>>>
           /\ norm.devices = {DevY, DevXE}
    /\ \E j \in 1..Len(topology_data[1][2].lldp) :
           /\ WellFormed(topology_data[1][2].lldp[j])
           /\ topology_data[1][2].lldp[j].remote_dev = DevX

\* C17 (as claimed): every port that is an endpoint of a p2p edge or of a
\* segment edge has a PortMeta entry of its own: port_meta has as many
\* entries as there are such (device, port) pairs, no two of them share the
\* key "device:port", and each entry carries the interface data of its own
\* (device, port).
C17_OnePortMetaPerReferencedPort ==
    Built =>
        /\ Cardinality(DOMAIN model.port_meta)
               = Cardinality(Referenced(model))
        /\ \A r, q \in Referenced(model) :
               PortKey(r[1], r[2]) = PortKey(q[1], q[2]) => r = q
        /\ \A r \in Referenced(model) :
               /\ PortKey(r[1], r[2]) \in DOMAIN model.port_meta
               /\ model.port_meta[PortKey(r[1], r[2])]
                      = PortMeta(SnapshotIface(r[1], r[2]))

-----------------------------------------------------------------------------
(* Claims about the run from the device list on (SpecCollect).             *)

\* C12 (as claimed): two configured devices never resolve to one device
\* identifier without the run being rejected: the hosts being collected are
\* distinct, and a collection step adds an entry to the snapshot and leaves
\* the entries of the devices collected before as they are.
C12_DuplicateDeviceRejected ==
    [][/\ pc' = "collect" =>
            \A i, j \in 1..Len(todo') : todo'[i] = todo'[j] => i = j
       /\ topology_data' # topology_data =>
            /\ Len(topology_data') = Len(topology_data) + 1
            /\ SubSeq(topology_data', 1, Len(topology_data)) = topology_data
      ]_vars

-----------------------------------------------------------------------------
(* Claims about the segments (SpecCore) and the order of the observations   *)
(* (SpecOrder).                                                            *)

IsPrefix(a, b) == Len(a) <= Len(b) /\ SubSeq(b, 1, Len(a)) = a

\* the raw edges normalize_edges makes of the snapshot
RawEdges == normalize_edges(topology_data, ignore_ports).raw_edges

\* the anomaly notes of the payload that are about port "d:p"
NotesFor(d, p) ==
    {i \in 1..Len(payload.anomaly_notes) :
        IsPrefix(PortKey(d, p) \o NotePhrase, payload.anomaly_notes[i])}

\* C13 (as claimed): for every anomalous port (d, p) of the model, seg_nodes
\* holds "SEG:d:p", seg_edges holds an edge (d, p, "SEG:d:p"),
\* seg_members["SEG:d:p"] covers at least two remote devices, and the payload
\* holds exactly one anomaly note for d:p, naming the remote devices seen on
\* (d, p).
C13_AnomalousPortsNotSuppressed ==
    pc = "exported" =>
        \A dp \in model.anomalous_ports :
            LET seg == SegName(dp[1], dp[2])
            IN  /\ seg \in model.seg_nodes
                /\ InList(<<dp[1], dp[2], seg>>, model.seg_edges)
                /\ seg \in DOMAIN model.seg_members
                /\ Cardinality({member[1] :
                       member \in model.seg_members[seg]}) >= 2
                /\ Cardinality(NotesFor(dp[1], dp[2])) = 1
                /\ \A i \in NotesFor(dp[1], dp[2]) :
                       payload.anomaly_notes[i] =
                           PortKey(dp[1], dp[2]) \o NotePhrase \o
                               Join(SortedStrs(
                                   RemoteDevicesOn(RawEdges, dp[1], dp[2])))

\* the raw edges whose local port is, or is not, anomalous, in order
OnAnomalous(raw, anom) ==
    SelectSeq(raw, LAMBDA e : <<e[1], e[2]>> \in anom)
OffAnomalous(raw, anom) ==
    SelectSeq(raw, LAMBDA e : <<e[1], e[2]>> \notin anom)

\* C14: segmentize_edges splits the raw edges by their local port alone: the
\* edges on non-anomalous local ports are p2p_raw, unchanged and in order;
\* each edge (d, lp, rd, rp) on an anomalous local port gives the segment
\* edge (d, lp, "SEG:d:lp") and puts (rd, rp) among that segment's members,
\* which hold nothing else; the two outputs together are as long as the
\* input; and every p2p edge of the model is the canonical form of a raw
\* edge on a non-anomalous local port.
C14_SegmentizeSplitsByLocalPort ==
    pc = "built" =>
        LET raw == RawEdges
            anom == detect_anomalous_ports(raw)
            out == segmentize_edges(raw, anom)
            on == OnAnomalous(raw, anom)
        IN  /\ out.p2p_raw = OffAnomalous(raw, anom)
            /\ out.seg_edges =
                   [i \in 1..Len(on) |->
                       <<on[i][1], on[i][2], SegName(on[i][1], on[i][2])>>]
            /\ DOMAIN out.seg_members =
                   {SegName(on[i][1], on[i][2]) : i \in 1..Len(on)}
            /\ \A seg \in DOMAIN out.seg_members :
                   out.seg_members[seg] =
                       {<<on[i][3], on[i][4]>> :
                           i \in {j \in 1..Len(on) :
                                     SegName(on[j][1], on[j][2]) = seg}}
            /\ Len(out.p2p_raw) + Len(out.seg_edges) = Len(raw)
            /\ model.seg_edges = out.seg_edges
            /\ model.seg_members = out.seg_members
            /\ \A i \in 1..Len(model.p2p_edges) :
                   \E j \in 1..Len(raw) :
                       /\ <<raw[j][1], raw[j][2]>> \notin anom
                       /\ Canonical(raw[j]) = model.p2p_edges[i]

\* a port hears two devices through three links, and a port it hears
\* reports its own single link back: that edge stays point-to-point
C14_Witness ==
    /\ pc = "built"
    /\ Len(RawEdges) = 4
    /\ Len(model.seg_edges) = 3
    /\ \E seg \in DOMAIN model.seg_members :
           Cardinality(model.seg_members[seg]) = 3
    /\ Len(model.p2p_edges) = 1
    /\ <<model.p2p_edges[1][1], model.p2p_edges[1][2]>>
           \in model.anomalous_ports

\* the remote endpoints the raw edges report on local port (d, p)
RemoteEndpointsOn(list, d, p) ==
    {<<list[i][3], list[i][4]>> :
        i \in {j \in 1..Len(list) : list[j][1] = d /\ list[j][2] = p}}

\* C15 (as claimed): in every built model (d, p) -> "SEG:d:p" is a
\* bijection between anomalous_ports and seg_nodes: two anomalous ports
\* never share a segment node, a segment's members are the remote endpoints
\* seen on its own port, and the keys of seg_members are the seg_nodes.
C15_OneSegmentPerAnomalousPort ==
    Built =>
        /\ model.seg_nodes =
               {SegName(dp[1], dp[2]) : dp \in model.anomalous_ports}
        /\ \A a, b \in model.anomalous_ports :
               SegName(a[1], a[2]) = SegName(b[1], b[2]) => a = b
        /\ \A dp \in model.anomalous_ports :
               model.seg_members[SegName(dp[1], dp[2])] =
                   RemoteEndpointsOn(RawEdges, dp[1], dp[2])
        /\ DOMAIN model.seg_members = model.seg_nodes

\* the raw edges a peer reports on a non-anomalous port of its own towards
\* a port that is anomalous
AsymmetricEdges(raw, anom) ==
    {i \in 1..Len(raw) : /\ <<raw[i][1], raw[i][2]>> \notin anom
                         /\ <<raw[i][3], raw[i][4]>> \in anom}

\* C18: the port at the remote end is never consulted: a raw edge on a
\* non-anomalous local port towards an anomalous port (d, p) is kept as a
\* p2p edge with (d, p) as an endpoint, while (d, p) stays in
\* anomalous_ports and keeps its segment edge.
C18_AsymmetricViewPreserved ==
    Built =>
        LET raw == RawEdges
            referenced == Referenced(model)
        IN  \A i \in AsymmetricEdges(raw, model.anomalous_ports) :
                /\ InList(Canonical(raw[i]), model.p2p_edges)
                /\ <<raw[i][3], raw[i][4]>> \in referenced
                /\ InList(<<raw[i][3], raw[i][4],
                            SegName(raw[i][3], raw[i][4])>>, model.seg_edges)

\* X hears Y and X:E on port E0, Y hears only X on its port E0: (X, E0) is
\* anomalous with a segment edge, and an endpoint of the p2p edge Y reported
C18_Witness ==
    /\ pc = "built"
    /\ model.anomalous_ports = {<<DevX, PortE0>>}
    /\ InList(<<DevX, PortE0, SegName(DevX, PortE0)>>, model.seg_edges)
    /\ model.p2p_edges = <<<<DevX, PortE0, DevY, PortE0>>>>
    /\ AsymmetricEdges(RawEdges, model.anomalous_ports) # {}
    /\ \A i \in AsymmetricEdges(RawEdges, model.anomalous_ports) :
           RawEdges[i] = <<DevY, PortE0, DevX, PortE0>>

\* the orders in which n things can be listed
Perms(n) == {f \in [1..n -> 1..n] : \A i, j \in 1..n : f[i] = f[j] => i = j}

Permuted(seq, f) == [i \in 1..Len(seq) |-> seq[f[i]]]

\* the snapshot with its devices listed in the order f and the lldp links
\* of the device now at place i in the order g[i]
Reordered(data, f, g) ==
    [i \in 1..Len(data) |->
        <<data[f[i]][1],
          [data[f[i]][2] EXCEPT !.lldp = Permuted(@, g[i])]>>]

\* the orders of the links of each device of data, from place i on, the
\* devices being listed in the order f
RECURSIVE LinkOrdersFrom(_, _, _)
LinkOrdersFrom(data, f, i) ==
    IF i > Len(data) THEN {<<>>}
    ELSE {<<h>> \o rest : h \in Perms(Len(data[f[i]][2].lldp)),
                          rest \in LinkOrdersFrom(data, f, i + 1)}

LinkOrders(data, f) == LinkOrdersFrom(data, f, 1)

SetOf(seq) == {seq[i] : i \in 1..Len(seq)}

\* C19: the order of the observations does not change the sets the core
\* returns: detect_anomalous_ports gives the same set for every order of
\* the raw edges, and build_model gives the same devices, anomalous_ports,
\* seg_nodes, seg_members, set of p2p edges and port_meta keys for every
\* order of the devices in the snapshot and of the links of each device.
C19_OrderIndependent ==
    pc = "built" =>
        /\ \A h \in Perms(Len(RawEdges)) :
               detect_anomalous_ports(Permuted(RawEdges, h))
                   = model.anomalous_ports
        /\ \A f \in Perms(Len(topology_data)) :
               \A g \in LinkOrders(topology_data, f) :
                   LET m2 == build_model(Reordered(topology_data, f, g),
                                         ignore_ports)
                   IN  /\ m2.devices = model.devices
                       /\ m2.anomalous_ports = model.anomalous_ports
                       /\ m2.seg_nodes = model.seg_nodes
                       /\ m2.seg_members = model.seg_members
                       /\ SetOf(m2.p2p_edges) = SetOf(model.p2p_edges)
                       /\ DOMAIN m2.port_meta = DOMAIN model.port_meta

\* a snapshot with an anomalous port and a p2p edge, whose devices listed
\* the other way round give the raw edges in another order and the same
\* segment and p2p edge
C19_Witness ==
    /\ pc = "built"
    /\ Len(RawEdges) = 3
    /\ model.anomalous_ports # {}
    /\ Len(model.p2p_edges) = 1
    /\ \E f \in Perms(Len(topology_data)) :
           \E g \in LinkOrders(topology_data, f) :
               LET data2 == Reordered(topology_data, f, g)
                   m2 == build_model(data2, ignore_ports)
               IN  /\ normalize_edges(data2, ignore_ports).raw_edges[1]
                          # RawEdges[1]
                   /\ m2.seg_members = model.seg_members
                   /\ m2.p2p_edges = model.p2p_edges

=============================================================================
